---- MODULE Spec2Model ----
(***************************************************************************)
(* Model of src/main.py: the ADF mapping function generate_adf_xml, the    *)
(* startup batch of __main__, and the /webhook handler with its           *)
(* process-lifetime set processed_leads.                                   *)
(***************************************************************************)
EXTENDS Integers, Sequences, FiniteSets, TLC

\* ------------------------------------------------------------------ bounds
MaxBatch == 2
MaxDeliveries == 3
NThreads == 2

\* ---------------------------------------------------- JSON / Python values
\* Every value of a lead has the same shape: k is the Python type
\* ("absent" = key not in the dict, "null" = None, "str", "map" = dict,
\* "list" = list of str, "intlist" = list of int), s the text of a str (or
\* the repr of a container), m the items of a dict as <<key, str>> pairs,
\* items the elements of a list.
Val(k, s, m, items) == [k |-> k, s |-> s, m |-> m, items |-> items]
Absent == Val("absent", "", <<>>, <<>>)
Null == Val("null", "", <<>>, <<>>)
Str(s) == Val("str", s, <<>>, <<>>)
Map(m, repr) == Val("map", repr, m, <<>>)
List(items, repr) == Val("list", repr, <<>>, items)
IntList(items, repr) == Val("intlist", repr, <<>>, items)

\* Mutant of Truthy: the test "value is not None" in place of truthiness.
TruthyNotNone(v) == v.k \notin {"null", "absent"}

\* Python truthiness: bool(value).
Truthy(v) ==
  CASE v.k = "str" -> v.s # ""
    [] v.k = "map" -> v.m # <<>>
    [] v.k \in {"list", "intlist"} -> v.items # <<>>
    [] OTHER -> FALSE

\* Python str(value): None -> "None", a str is itself, a container its repr.
PyStr(v) ==
  CASE v.k = "null" -> "None"
    [] OTHER -> v.s

\* dict.get(key, default) on a lead: the default only when the key is absent.
Get(lead, key, default) == IF lead[key].k = "absent" THEN default ELSE lead[key]

\* dict.get(key, "") on a nested dict whose values are strings.
RECURSIVE MapGet(_, _)
MapGet(m, key) ==
  IF m = <<>> THEN ""
  ELSE IF Head(m)[1] = key THEN Head(m)[2]
  ELSE MapGet(Tail(m), key)

\* ------------------------------------------------------------- XML elements
\* etree.Element / etree.SubElement: tag, attributes in insertion order,
\* text, children in insertion order.
Element(tag, attrs, text, children) ==
  [tag |-> tag, attrs |-> attrs, text |-> text, children |-> children]

\* The elements of a sequence of optional elements that are present.
RECURSIVE Present(_)
Present(opts) ==
  IF opts = <<>> THEN <<>>
  ELSE (IF Head(opts).emit THEN <<Head(opts).el>> ELSE <<>>) \o Present(Tail(opts))

Opt(cond, el) == [emit |-> cond, el |-> el]

\* Lines 73-76: for each contact key, "value = lead.get(key, '')" and, if the
\* value is truthy, a child element of that name with the value as text.
RECURSIVE ContactFields(_, _)
ContactFields(lead, keys) ==
  IF keys = <<>> THEN <<>>
  ELSE (IF Truthy(Get(lead, Head(keys), Str("")))
          THEN <<Element(Head(keys), <<>>, Get(lead, Head(keys), Str("")).s, <<>>)>>
          ELSE <<>>)
       \o ContactFields(lead, Tail(keys))

\* Lines 82-85: the same for year, make, model of the vehicle dict.
RECURSIVE VehicleFields(_, _)
VehicleFields(m, keys) ==
  IF keys = <<>> THEN <<>>
  ELSE (IF MapGet(m, Head(keys)) # ""
          THEN <<Element(Head(keys), <<>>, MapGet(m, Head(keys)), <<>>)>>
          ELSE <<>>)
       \o VehicleFields(m, Tail(keys))

\* Lines 113-115: one tag element per element of the tags sequence.
RECURSIVE TagElements(_)
TagElements(items) ==
  IF items = <<>> THEN <<>>
  ELSE <<Element("tag", <<>>, Head(items), <<>>)>> \o TagElements(Tail(items))

ContactKeys == <<"phone", "email", "address1", "city", "state", "postalCode">>
VehicleKeys == <<"year", "make", "model">>

\* Mutant of Comments: the AI memory alone when there is no primary comment.
CommentsSoleText(lead) ==
  LET primary == MapGet(Get(lead, "CUSTOMER", Map(<<>>, "{}")).m, "COMMENTS")
      memory == Get(lead, "Chat GPT", Str(""))
  IN IF ~Truthy(memory) THEN primary
     ELSE IF primary = "" THEN PyStr(memory)
     ELSE primary \o "\n\nAI Memory:\n" \o PyStr(memory)

\* Lines 92-96: the comments text. The f-string formats the primary comment
\* with str(), and is applied whenever the AI memory is truthy.
PrimaryComments(lead) == MapGet(Get(lead, "CUSTOMER", Map(<<>>, "{}")).m, "COMMENTS")
AiMemory(lead) == Get(lead, "Chat GPT", Str(""))
Comments(lead) ==
  IF Truthy(AiMemory(lead))
    THEN PrimaryComments(lead) \o "\n\nAI Memory:\n" \o PyStr(AiMemory(lead))
    ELSE PrimaryComments(lead)

\* Mutant of VehicleEmitted: the block whenever the key is present.
VehicleEmittedIfPresent(lead) == lead["vehicleOfInterest"].k # "absent"

\* Lines 79-81: the vehicle dict, used only when truthy.
VehicleInfo(lead) == Get(lead, "vehicleOfInterest", Map(<<>>, "{}"))
VehicleEmitted(lead) == Truthy(VehicleInfo(lead))

VendorName(lead) == MapGet(Get(lead, "VENDOR", Map(<<>>, "{}")).m, "VENDORNAME")
Tags(lead) == Get(lead, "tags", List(<<>>, "[]"))

\* The first exception the loop body (lines 57-115) raises for a lead, in the
\* order of the statements, or "" when it raises none:
\*   .text = value that is not a str        -> TypeError   (lxml)
\*   .get on a value that is not a dict     -> AttributeError
\*   for tag in None                        -> TypeError
NotStrText(v) == Truthy(v) /\ v.k # "str"
NoGet(v) == v.k # "map"
RECURSIVE FirstRaise(_)
FirstRaise(points) ==
  IF points = <<>> THEN ""
  ELSE IF Head(points)[1] THEN Head(points)[2]
  ELSE FirstRaise(Tail(points))

LeadRaises(lead) ==
  FirstRaise(<<
    <<NotStrText(Get(lead, "firstName", Null)), "TypeError">>,
    <<NotStrText(Get(lead, "lastName", Null)), "TypeError">>,
    <<\E i \in 1..Len(ContactKeys) : NotStrText(Get(lead, ContactKeys[i], Str(""))),
      "TypeError">>,
    <<VehicleEmitted(lead) /\ NoGet(VehicleInfo(lead)), "AttributeError">>,
    <<NoGet(Get(lead, "CUSTOMER", Map(<<>>, "{}"))), "AttributeError">>,
    <<NoGet(Get(lead, "VENDOR", Map(<<>>, "{}"))), "AttributeError">>,
    <<Tags(lead).k = "null", "TypeError">>,
    <<Tags(lead).k = "intlist" /\ Tags(lead).items # <<>>, "TypeError">>
  >>)

\* Lines 57-115: the prospect subtree of one lead (when nothing raises).
\* The customer element is created second and receives its comments child
\* later; the children of the prospect are in creation order.
Prospect(lead) ==
  Element("prospect", <<>>, "",
    <<Element("id", <<>>, PyStr(Get(lead, "id", Str(""))), <<>>),
      Element("customer", <<>>, "",
        <<Element("contact", <<>>, "",
            Present(<<
              Opt(Truthy(Get(lead, "firstName", Null)),
                  Element("name", <<<<"part", "first">>>>, Get(lead, "firstName", Null).s, <<>>)),
              Opt(Truthy(Get(lead, "lastName", Null)),
                  Element("name", <<<<"part", "last">>>>, Get(lead, "lastName", Null).s, <<>>))
            >>)
            \o ContactFields(lead, ContactKeys))>>
        \o Present(<<Opt(Comments(lead) # "",
                         Element("comments", <<>>, Comments(lead), <<>>))>>))>>
    \o Present(<<
         Opt(VehicleEmitted(lead),
             Element("vehicle", <<<<"interest", "buy">>>>, "",
                     VehicleFields(VehicleInfo(lead).m, VehicleKeys)))>>)
    \o <<Element("id", <<<<"sequence", "1">>, <<"source", "VERBLEAD">>>>,
                 PyStr(Get(lead, "id", Str(""))), <<>>)>>
    \o Present(<<
         Opt(VendorName(lead) # "",
             Element("vendor", <<>>, "",
                     <<Element("vendorname", <<>>, VendorName(lead), <<>>)>>))>>)
    \o <<Element("provider", <<>>, "",
           <<Element("name", <<<<"part", "full">>>>, "VERBLEAD", <<>>),
             Element("service", <<>>, "AI Sales", <<>>)>>)>>
    \o TagElements(Tags(lead).items))

\* ------------------------------------------------------------ serialization
\* etree.tostring(root, xml_declaration=True): the byte stream as a sequence
\* of tokens: the declaration, then for each element its start tag with its
\* attributes, its text when it has one, its children, and its end tag.
Token(t, name, attrs, s) == [t |-> t, name |-> name, attrs |-> attrs, s |-> s]
Declaration == Token("decl", "xml", <<<<"version", "1.0">>, <<"encoding", "utf-8">>>>, "")

RECURSIVE SerializeElement(_), SerializeChildren(_)
SerializeElement(e) ==
  <<Token("open", e.tag, e.attrs, "")>>
  \o (IF e.text # "" THEN <<Token("text", "", <<>>, e.text)>> ELSE <<>>)
  \o SerializeChildren(e.children)
  \o <<Token("close", e.tag, <<>>, "")>>
SerializeChildren(els) ==
  IF els = <<>> THEN <<>>
  ELSE SerializeElement(Head(els)) \o SerializeChildren(Tail(els))

tostring(root) == <<Declaration>> \o SerializeElement(root)

\* The structural parse of a byte stream (etree.fromstring): the element that
\* starts at token i, and the index after its end tag.
RECURSIVE ParseElement(_, _), ParseChildren(_, _)
ParseElement(b, i) ==
  LET hasText == b[i + 1].t = "text"
      kids == ParseChildren(b, IF hasText THEN i + 2 ELSE i + 1)
  IN [el |-> Element(b[i].name, b[i].attrs,
                     IF hasText THEN b[i + 1].s ELSE "", kids.els),
      next |-> kids.next + 1]
ParseChildren(b, i) ==
  IF b[i].t = "close" THEN [els |-> <<>>, next |-> i]
  ELSE LET e == ParseElement(b, i)
           rest == ParseChildren(b, e.next)
       IN [els |-> <<e.el>> \o rest.els, next |-> rest.next]

fromstring(b) == ParseElement(b, 2).el

\* ---------------------------------------------------------- generate_adf_xml
\* What a call returns or raises: kind "none" (return None), "raise" (exc is
\* the exception type) or "bytes" (the serialized document).
ReturnNone == [kind |-> "none", exc |-> "", bytes |-> <<>>]
Raise(exc) == [kind |-> "raise", exc |-> exc, bytes |-> <<>>]
ReturnBytes(b) == [kind |-> "bytes", exc |-> "", bytes |-> b]

RECURSIVE BatchRaises(_)
BatchRaises(leads) ==
  IF leads = <<>> THEN ""
  ELSE IF LeadRaises(Head(leads)) # "" THEN LeadRaises(Head(leads))
  ELSE BatchRaises(Tail(leads))

\* Mutant of Prospects: each prospect inserted in front of the earlier ones.
RECURSIVE ProspectsReversed(_)
ProspectsReversed(leads) ==
  IF leads = <<>> THEN <<>>
  ELSE ProspectsReversed(Tail(leads)) \o <<Prospect(Head(leads))>>

RECURSIVE Prospects(_)
Prospects(leads) ==
  IF leads = <<>> THEN <<>>
  ELSE <<Prospect(Head(leads))>> \o Prospects(Tail(leads))

\* Mutant of generate_adf_xml: no guard for the empty batch.
generate_adf_xml_unguarded(leads_data) ==
  IF BatchRaises(leads_data) # "" THEN Raise(BatchRaises(leads_data))
  ELSE ReturnBytes(tostring(Element("adf", <<>>, "", Prospects(leads_data))))

generate_adf_xml(leads_data) ==
  IF leads_data = <<>> THEN ReturnNone
  ELSE IF BatchRaises(leads_data) # "" THEN Raise(BatchRaises(leads_data))
  ELSE ReturnBytes(tostring(Element("adf", <<>>, "", Prospects(leads_data))))

\* ------------------------------------------------------------------ inputs
\* The keys of a lead the program reads.
Keys ==
  {"id", "firstName", "lastName", "phone", "email", "address1", "city", "state",
   "postalCode", "vehicleOfInterest", "CUSTOMER", "Chat GPT", "VENDOR", "tags"}

EmptyLead == [key \in Keys |-> Absent]
With(lead, key, v) == [lead EXCEPT ![key] = v]

Ids == {Absent, Null, Str("123"), Str("456"), List(<<"7">>, "['7']")}

VehicleValues ==
  {Null, Str("SUV"), Map(<<>>, "{}"),
   Map(<<<<"color", "red">>>>, "{'color': 'red'}"),
   Map(<<<<"year", "">>, <<"model", "Rio">>, <<"make", "Kia">>>>,
       "{'year': '', 'model': 'Rio', 'make': 'Kia'}")}

\* <<CUSTOMER, Chat GPT>> pairs.
CommentSources ==
  {<<Map(<<<<"COMMENTS", "Called back">>>>, "{'COMMENTS': 'Called back'}"), Absent>>,
   <<Absent, Str("Customer prefers SUVs")>>,
   <<Map(<<<<"COMMENTS", "">>>>, "{'COMMENTS': ''}"), Str("")>>,
   <<Null, Absent>>,
   <<Str("x"), Str("Customer prefers SUVs")>>}

VendorValues == {Null, Str("Acme"), Map(<<>>, "{}")}

TagsValues ==
  {Null, List(<<>>, "[]"), IntList(<<"1">>, "[1]"),
   \* a str where a list was expected is iterated character by character
   Val("str", "ab", <<>>, <<"a", "b">>)}

\* A lead with every field well formed and present.
FullLead ==
  [key \in Keys |->
     CASE key = "id" -> Str("123")
       [] key = "firstName" -> Str("Ann")
       [] key = "lastName" -> Str("Lee")
       [] key = "phone" -> Str("555")
       [] key = "email" -> Str("a@x.io")
       [] key = "address1" -> Str("1 Main")
       [] key = "city" -> Str("Reno")
       [] key = "state" -> Str("NV")
       [] key = "postalCode" -> Str("89501")
       [] key = "vehicleOfInterest" ->
            Map(<<<<"year", "2020">>, <<"make", "Kia">>, <<"model", "Rio">>>>,
                "{'year': '2020', 'make': 'Kia', 'model': 'Rio'}")
       [] key = "CUSTOMER" ->
            Map(<<<<"COMMENTS", "Called back">>>>, "{'COMMENTS': 'Called back'}")
       [] key = "Chat GPT" -> Str("Customer prefers SUVs")
       [] key = "VENDOR" -> Map(<<<<"VENDORNAME", "Acme">>>>, "{'VENDORNAME': 'Acme'}")
       [] key = "tags" -> List(<<"hot", "vip">>, "['hot', 'vip']")]

\* The leads the mapping is checked on: the empty and the full lead, and leads
\* that vary one field (or the two comment sources) of a lead with an id.
Leads ==
  {EmptyLead, FullLead}
  \cup {With(EmptyLead, "id", i) : i \in Ids}
  \cup {With(With(EmptyLead, "id", Str("456")), "vehicleOfInterest", v) : v \in VehicleValues}
  \cup {With(With(With(EmptyLead, "id", Str("456")), "CUSTOMER", c[1]), "Chat GPT", c[2]) :
          c \in CommentSources}
  \cup {With(With(EmptyLead, "id", Str("456")), "VENDOR", v) : v \in VendorValues}
  \cup {With(With(EmptyLead, "id", Str("456")), "tags", t) : t \in TagsValues}
  \cup {With(With(EmptyLead, "firstName", n), "phone", n) : n \in {Null, Str("")}}

\* Sequences of at most n elements of S.
RECURSIVE SeqsUpTo(_, _)
SeqsUpTo(S, n) ==
  IF n = 0 THEN {<<>>}
  ELSE SeqsUpTo(S, n - 1) \cup {Append(q, x) : q \in {r \in SeqsUpTo(S, n - 1) : Len(r) = n - 1}, x \in S}

Batches == SeqsUpTo(Leads, MaxBatch)

\* Webhook payloads: request.get_json() is falsy ("empty": {}, [], null, 0,
\* ""), a truthy value that is no object ("array"), or an object.
Payload(kind, lead) == [kind |-> kind, lead |-> lead]
BodyA(i) == With(With(EmptyLead, "id", i), "firstName", Str("Ann"))
BodyB(i) == With(With(With(EmptyLead, "id", i), "firstName", Str("Bob")),
                 "Chat GPT", Str("Customer prefers SUVs"))
BodyNullCustomer(i) == With(BodyA(i), "CUSTOMER", Null)
BodyNullTags(i) == With(BodyA(i), "tags", Null)
WebhookLeads ==
  {BodyA(i) : i \in Ids}
  \cup {BodyB(Str("123")), BodyB(Absent), BodyNullCustomer(Str("123")),
        BodyNullCustomer(Null), BodyNullTags(Str("456"))}
Payloads ==
  {Payload("empty", EmptyLead), Payload("array", EmptyLead)}
  \cup {Payload("object", l) : l \in WebhookLeads}
ConcurrentPayloads ==
  {Payload("object", l) :
     l \in {BodyA(Str("123")), BodyB(Str("123")), BodyA(Str("456")), BodyNullCustomer(Str("456"))}}

\* What fetch_ghl_leads returns at startup in the service specifications
\* (an empty list also stands for a failed request, lines 45-47).
StartupBatches == {<<>>, <<FullLead>>, <<BodyNullCustomer(Str("456"))>>}

\* ------------------------------------------------------------------- state
VARIABLES
  pc,               \* the process: "start", "serving", "crashed", "stopped"
  leads,            \* what fetch_ghl_leads() returns (line 204)
  adf_xml,          \* the startup batch's generate_adf_xml result (line 205)
  file,             \* the bytes of lead_export.xml, <<>> while it does not exist
  outbox,           \* the mails the transport accepted, in order
  processed_leads,  \* the set of line 131
  shutdown_func,    \* whether the server offers 'werkzeug.server.shutdown'
  log,              \* the answered webhook deliveries, in order
  req               \* the request each server thread is handling

vars == <<pc, leads, adf_xml, file, outbox, processed_leads, shutdown_func, log, req>>

Threads == 1..NThreads
NotCalled == [kind |-> "notcalled", exc |-> "", bytes |-> <<>>]
Mail(subject, contents, attachment) ==
  [subject |-> subject, contents |-> contents, attachment |-> attachment]
Idle ==
  [pc |-> "idle", payload |-> Payload("empty", EmptyLead), lead_id |-> Null,
   adf_xml |-> NotCalled, gate |-> "", status |-> 0, wrote |-> FALSE, mailed |-> FALSE]

InitWith(batches, funcs) ==
  /\ pc = "start"
  /\ leads \in batches
  /\ adf_xml = NotCalled
  /\ file = <<>>
  /\ outbox = <<>>
  /\ processed_leads = {}
  /\ shutdown_func \in funcs
  /\ log = <<>>
  /\ req = [t \in Threads |-> Idle]

\* ---------------------------------------------------------------- __main__
\* Lines 204-219: generate the document of the fetched leads; when there is
\* one, write it and mail it (send_email logs a failure and returns); then
\* start the server. An exception of generate_adf_xml is not caught: the
\* process dies before the server starts.
Startup(mailOK) ==
  /\ pc = "start"
  /\ adf_xml' = generate_adf_xml(leads)
  /\ pc' = IF adf_xml'.kind = "raise" THEN "crashed" ELSE "serving"
  /\ file' = IF adf_xml'.kind = "bytes" THEN adf_xml'.bytes ELSE file
  /\ outbox' = IF adf_xml'.kind = "bytes" /\ mailOK
                 THEN Append(outbox, Mail("New Leads from GHL",
                                     <<"New leads in ADFXML format attached.",
                                       "lead_export.xml">>, ""))
                 ELSE outbox
  /\ UNCHANGED <<leads, processed_leads, shutdown_func, log, req>>

\* ---------------------------------------------------------- handle_webhook
\* Line 139: "not lead_data" holds of None, 0, "", [] and of the empty dict.
Falsy(payload) ==
  \/ payload.kind = "empty"
  \/ payload.kind = "object" /\ \A key \in Keys : payload.lead[key].k = "absent"

\* Line 142: lead_data.get("id") is None when the key is absent.
LeadId(payload) == Get(payload.lead, "id", Null)

\* Membership in a set hashes the value: a list or a dict raises TypeError.
Hashable(v) == v.k \in {"null", "str"}

\* Mutant of IsDuplicate: a delivery without an id is never a duplicate.
IsDuplicateWithId(lead_id, processed) == lead_id.k # "null" /\ lead_id \in processed

\* Line 145: the duplicate check.
IsDuplicate(lead_id, processed) == lead_id \in processed

\* Mutant of Recorded: the id is not added.
NotRecorded(lead_id, processed) == processed

\* Line 149: processed_leads.add(lead_id).
Recorded(lead_id, processed) == processed \cup {lead_id}

\* Lines 138-149: how a delivery leaves the duplicate check.
Gate(payload, processed) ==
  CASE Falsy(payload) -> "invalid"
    [] payload.kind # "object" -> "AttributeError"
    [] ~Hashable(LeadId(payload)) -> "TypeError"
    [] IsDuplicate(LeadId(payload), processed) -> "duplicate"
    [] OTHER -> "accept"

\* Lines 140, 147, 168-173: the status a delivery is answered with when it
\* does not get past the duplicate check.
GateStatus(gate) ==
  CASE gate = "invalid" -> 400
    [] gate = "TypeError" -> 400
    [] gate = "AttributeError" -> 500
    [] OTHER -> 200

\* Lines 168-173: the status for an exception raised while processing.
RaiseStatus(exc) == IF exc \in {"ValueError", "KeyError", "TypeError"} THEN 400 ELSE 500

\* Lines 153-166: a document is written and mailed only when there is one.
WritesFile(adf) == adf.kind = "bytes"
ProcessingStatus(adf) ==
  CASE adf.kind = "bytes" -> 200
    [] adf.kind = "raise" -> RaiseStatus(adf.exc)
    [] OTHER -> 400

WebhookMail ==
  Mail("New Lead from GHL", <<"New lead in ADFXML format attached.">>, "lead_export.xml")

Answer(payload, gate, status, wrote, mailed) ==
  [kind |-> payload.kind, raw_id |-> payload.lead["id"], lead_id |-> LeadId(payload),
   gate |-> gate, status |-> status, wrote |-> wrote, mailed |-> mailed]

\* Lines 176-178: the finally block stops the server when it can.
AfterRequest == IF shutdown_func THEN "stopped" ELSE pc

\* Mutant of HandleWebhook: the id is recorded only once the document has
\* been written and the mail handed over.
HandleWebhookRecordLast(payload, mailOK) ==
  /\ pc = "serving"
  /\ Len(log) < MaxDeliveries
  /\ \A t \in Threads : req[t].pc = "idle"
  /\ LET gate == Gate(payload, processed_leads)
         adf == generate_adf_xml(<<payload.lead>>)
     IN IF gate # "accept"
          THEN /\ log' = Append(log, Answer(payload, gate, GateStatus(gate), FALSE, FALSE))
               /\ UNCHANGED <<processed_leads, file, outbox>>
          ELSE /\ processed_leads' = IF WritesFile(adf) /\ mailOK
                                       THEN Recorded(LeadId(payload), processed_leads)
                                       ELSE processed_leads
               /\ file' = IF WritesFile(adf) THEN adf.bytes ELSE file
               /\ outbox' = IF WritesFile(adf) /\ mailOK
                              THEN Append(outbox, WebhookMail) ELSE outbox
               /\ log' = Append(log, Answer(payload, gate, ProcessingStatus(adf),
                                            WritesFile(adf), WritesFile(adf) /\ mailOK))
  /\ pc' = AfterRequest
  /\ UNCHANGED <<leads, adf_xml, shutdown_func, req>>

\* The whole handler, for a delivery handled with no other in progress.
HandleWebhook(payload, mailOK) ==
  /\ pc = "serving"
  /\ Len(log) < MaxDeliveries
  /\ \A t \in Threads : req[t].pc = "idle"
  /\ LET gate == Gate(payload, processed_leads)
         adf == generate_adf_xml(<<payload.lead>>)
     IN IF gate # "accept"
          THEN /\ log' = Append(log, Answer(payload, gate, GateStatus(gate), FALSE, FALSE))
               /\ UNCHANGED <<processed_leads, file, outbox>>
          ELSE /\ processed_leads' = Recorded(LeadId(payload), processed_leads)
               /\ file' = IF WritesFile(adf) THEN adf.bytes ELSE file
               /\ outbox' = IF WritesFile(adf) /\ mailOK
                              THEN Append(outbox, WebhookMail) ELSE outbox
               /\ log' = Append(log, Answer(payload, gate, ProcessingStatus(adf),
                                            WritesFile(adf), WritesFile(adf) /\ mailOK))
  /\ pc' = AfterRequest
  /\ UNCHANGED <<leads, adf_xml, shutdown_func, req>>

\* The same handler as the steps of a server thread (app.run serves each
\* request in a thread of its own); a thread may be preempted between any two
\* of them.
Set(t, r) == req' = [req EXCEPT ![t] = r]

Receive(t, payload) ==
  /\ pc = "serving"
  /\ req[t].pc = "idle"
  /\ Set(t, [req[t] EXCEPT !.payload = payload, !.lead_id = LeadId(payload), !.pc = "check"])
  /\ UNCHANGED <<pc, leads, adf_xml, file, outbox, processed_leads, shutdown_func, log>>

Check(t) ==
  /\ req[t].pc = "check"
  /\ LET gate == Gate(req[t].payload, processed_leads)
     IN Set(t, [req[t] EXCEPT !.gate = gate,
                              !.status = GateStatus(gate),
                              !.pc = IF gate = "accept" THEN "add" ELSE "finally"])
  /\ UNCHANGED <<pc, leads, adf_xml, file, outbox, processed_leads, shutdown_func, log>>

Add(t) ==
  /\ req[t].pc = "add"
  /\ processed_leads' = Recorded(req[t].lead_id, processed_leads)
  /\ Set(t, [req[t] EXCEPT !.pc = "generate"])
  /\ UNCHANGED <<pc, leads, adf_xml, file, outbox, shutdown_func, log>>

Generate(t) ==
  /\ req[t].pc = "generate"
  /\ LET adf == generate_adf_xml(<<req[t].payload.lead>>)
     IN Set(t, [req[t] EXCEPT !.adf_xml = adf,
                              !.status = ProcessingStatus(adf),
                              !.pc = IF WritesFile(adf) THEN "write" ELSE "finally"])
  /\ UNCHANGED <<pc, leads, adf_xml, file, outbox, processed_leads, shutdown_func, log>>

WriteFile(t) ==
  /\ req[t].pc = "write"
  /\ file' = req[t].adf_xml.bytes
  /\ Set(t, [req[t] EXCEPT !.wrote = TRUE, !.pc = "send"])
  /\ UNCHANGED <<pc, leads, adf_xml, outbox, processed_leads, shutdown_func, log>>

SendMail(t, mailOK) ==
  /\ req[t].pc = "send"
  /\ outbox' = IF mailOK THEN Append(outbox, WebhookMail) ELSE outbox
  /\ Set(t, [req[t] EXCEPT !.mailed = mailOK, !.pc = "finally"])
  /\ UNCHANGED <<pc, leads, adf_xml, file, processed_leads, shutdown_func, log>>

Finally(t) ==
  /\ req[t].pc = "finally"
  /\ log' = Append(log, Answer(req[t].payload, req[t].gate, req[t].status,
                               req[t].wrote, req[t].mailed))
  /\ pc' = AfterRequest
  /\ Set(t, [req[t] EXCEPT !.pc = "done"])
  /\ UNCHANGED <<leads, adf_xml, file, outbox, processed_leads, shutdown_func>>

\* Lines 182-191: GET /shutdown stops the server when it offers the shutdown
\* function (otherwise shutdown_server raises RuntimeError and nothing
\* changes); requests in progress are still answered. The timed shutdown of
\* lines 221-234 runs in the main thread, outside a request, where
\* shutdown_server cannot reach the server: it changes nothing modelled here.
ShutdownRoute ==
  /\ pc = "serving"
  /\ shutdown_func
  /\ pc' = "stopped"
  /\ UNCHANGED <<leads, adf_xml, file, outbox, processed_leads, shutdown_func, log, req>>

\* ---------------------------------------------------------- specifications
\* The mapping function on its own: the startup batch over every input batch.
\* (The server is not used here, so what it offers is left fixed.)
InitGen == InitWith(Batches, {FALSE})
NextGen == \E mailOK \in BOOLEAN : Startup(mailOK)
SpecGen == InitGen /\ [][NextGen]_vars

\* The service with deliveries handled one after the other.
Init == InitWith(StartupBatches, BOOLEAN)
Next ==
  \/ \E mailOK \in BOOLEAN : Startup(mailOK)
  \/ \E payload \in Payloads, mailOK \in BOOLEAN : HandleWebhook(payload, mailOK)
  \/ ShutdownRoute
Spec == Init /\ [][Next]_vars

\* The service with deliveries handled concurrently.
NextConc ==
  \/ \E mailOK \in BOOLEAN : Startup(mailOK)
  \/ \E t \in Threads, payload \in ConcurrentPayloads : Receive(t, payload)
  \/ \E t \in Threads : Check(t)
  \/ \E t \in Threads : Add(t)
  \/ \E t \in Threads : Generate(t)
  \/ \E t \in Threads : WriteFile(t)
  \/ \E t \in Threads, mailOK \in BOOLEAN : SendMail(t, mailOK)
  \/ \E t \in Threads : Finally(t)
  \/ ShutdownRoute
SpecConc == Init /\ [][NextConc]_vars

\* ------------------------------------------------- reading the document
\* The startup batch produced a document.
Built == adf_xml.kind = "bytes"
Root == fromstring(adf_xml.bytes)
ChildrenNamed(el, tag) == SelectSeq(el.children, LAMBDA c : c.tag = tag)
Tagnames(els) == [i \in 1..Len(els) |-> els[i].tag]
\* The i-th prospect of the document and the i-th input record.
ProspectAt(i) == Root.children[i]
Records == 1..Len(leads)

\* ---------------------------------------------------------------- C7
\* C7: a document built from a non-empty batch parses to an adf root whose
\* children are exactly one prospect per input record, in input order, the
\* i-th prospect carrying str() of the i-th record's id.
C7_OneProspectPerRecord ==
  Built =>
    /\ Root.tag = "adf"
    /\ Len(Root.children) = Len(leads)
    /\ \A i \in Records :
         /\ ProspectAt(i).tag = "prospect"
         /\ ProspectAt(i).children[1].tag = "id"
         /\ ProspectAt(i).children[1].text = PyStr(Get(leads[i], "id", Str("")))

C7_Witness ==
  /\ Built
  /\ Len(leads) = 2
  /\ leads[1]["id"] = Str("456")
  /\ leads[2]["id"] = Str("123")

\* ---------------------------------------------------------------- C4
\* The startup batch has called generate_adf_xml.
Called == adf_xml.kind # "notcalled"

\* C4: generate_adf_xml never raises for a data-shape problem: called on a
\* non-empty batch it returns a document with a prospect for every record.
C4_NeverRaises ==
  (Called /\ leads # <<>>) =>
    /\ adf_xml.kind # "raise"
    /\ Built /\ Len(Root.children) = Len(leads)

\* ---------------------------------------------------------------- C5
\* The two comment sources of a record, read from the input: "" when absent.
PrimaryOf(lead) ==
  IF lead["CUSTOMER"].k = "map" THEN MapGet(lead["CUSTOMER"].m, "COMMENTS") ELSE ""
MemoryOf(lead) == IF lead["Chat GPT"].k = "str" THEN lead["Chat GPT"].s ELSE ""
\* The texts of the comments elements of the i-th prospect's customer.
CommentsAt(i) ==
  LET customer == ChildrenNamed(ProspectAt(i), "customer")[1]
      els == ChildrenNamed(customer, "comments")
  IN [j \in 1..Len(els) |-> els[j].text]
Expect(text) == IF text = "" THEN <<>> ELSE <<text>>

OnlyId(lead) == \A key \in Keys \ {"id"} : lead[key].k = "absent"

\* C6 as stated: such a record's prospect holds an id element and the
\* customer element with its empty contact child, and nothing else.
C6_SkeletonAsStated ==
  Built =>
    \A i \in Records :
      OnlyId(leads[i]) =>
        /\ Tagnames(ProspectAt(i).children) = <<"id", "customer">>
        /\ ProspectAt(i).children[2].children = <<Element("contact", <<>>, "", <<>>)>>

\* C6 amended: such a record's prospect holds, in this order, the id element,
\* the customer element with its empty contact child, the id element with
\* sequence="1" and source="VERBLEAD", and the constant provider block (name
\* part="full" VERBLEAD, service AI Sales), and nothing else: no name, phone,
\* email, address, vehicle, vendor, tag or comments element.
C6_SkeletonAmended ==
  Built =>
    \A i \in Records :
      OnlyId(leads[i]) =>
        LET idText == PyStr(Get(leads[i], "id", Str("")))
        IN ProspectAt(i).children =
             <<Element("id", <<>>, idText, <<>>),
               Element("customer", <<>>, "", <<Element("contact", <<>>, "", <<>>)>>),
               Element("id", <<<<"sequence", "1">>, <<"source", "VERBLEAD">>>>, idText, <<>>),
               Element("provider", <<>>, "",
                 <<Element("name", <<<<"part", "full">>>>, "VERBLEAD", <<>>),
                   Element("service", <<>>, "AI Sales", <<>>)>>)>>

C6_Witness ==
  /\ Built
  /\ \E i \in Records : leads[i] = EmptyLead
  /\ \E i \in Records : leads[i] = FullLead

\* ---------------------------------------------------------------- C8
\* C8: on the empty batch generate_adf_xml returns None, never a document;
\* with None the startup batch writes no file and sends no mail, and the
\* webhook handler writes nothing and answers 400.
C8_EmptyBatchNoDocument ==
  /\ (Called /\ leads = <<>>) => adf_xml = ReturnNone
  /\ adf_xml.kind = "none" => file = <<>> /\ outbox = <<>>
  /\ ~WritesFile(ReturnNone) /\ ProcessingStatus(ReturnNone) = 400

C8_Witness == pc = "serving" /\ leads = <<>> /\ adf_xml.kind = "none"

\* ---------------------------------------------------------------- C9
VehiclesAt(i) == ChildrenNamed(ProspectAt(i), "vehicle")
\* year, make, model in this order, those with a non-empty value only.
ExpectedVehicleFields(m) ==
  LET keys == SelectSeq(<<"year", "make", "model">>, LAMBDA key : MapGet(m, key) # "")
  IN [j \in 1..Len(keys) |-> Element(keys[j], <<>>, MapGet(m, keys[j]), <<>>)]

\* C9 as stated: the vehicle block is there exactly when the record has the
\* vehicleOfInterest key, and holds the non-empty ones of year, make, model.
C9_VehicleAsStated ==
  Built =>
    \A i \in Records :
      LET v == leads[i]["vehicleOfInterest"]
      IN IF v.k = "absent" THEN VehiclesAt(i) = <<>>
         ELSE VehiclesAt(i) =
                <<Element("vehicle", <<<<"interest", "buy">>>>, "", ExpectedVehicleFields(v.m))>>

\* C9 amended: the vehicle block is there exactly when vehicleOfInterest is a
\* non-empty mapping, also one that holds none of year, make, model; it is
\* absent when the key is absent, null or an empty mapping. Inside it only
\* the non-empty ones of year, make, model are emitted, in that order.
C9_VehicleAmended ==
  Built =>
    \A i \in Records :
      LET v == leads[i]["vehicleOfInterest"]
      IN /\ (v.k = "map" /\ v.m # <<>>) =>
              VehiclesAt(i) =
                <<Element("vehicle", <<<<"interest", "buy">>>>, "", ExpectedVehicleFields(v.m))>>
         /\ (v.k \in {"absent", "null"} \/ (v.k = "map" /\ v.m = <<>>)) =>
              VehiclesAt(i) = <<>>

C9_Witness ==
  /\ Built
  /\ Len(leads) = 2
  /\ leads[1]["vehicleOfInterest"].m = <<<<"color", "red">>>>
  /\ VehiclesAt(1) = <<Element("vehicle", <<<<"interest", "buy">>>>, "", <<>>)>>
  /\ leads[2]["vehicleOfInterest"] = Map(<<>>, "{}")
  /\ VehiclesAt(2) = <<>>

\* ---------------------------------------------------------------- C1
\* C1: of the deliveries with one identifier that are handled concurrently,
\* at most one gets past the duplicate check.
C1_AtMostOneAdmitted ==
  \A t, u \in Threads :
    (t # u /\ req[t].gate = "accept" /\ req[u].gate = "accept")
      => req[t].lead_id # req[u].lead_id

\* ---------------------------------------------------------------- C2
\* The answered deliveries whose payload was a non-empty object.
Deliveries == {i \in 1..Len(log) : log[i].kind = "object" /\ log[i].gate # "invalid"}
HasId(i) == log[i].lead_id.k # "null"
FirstOfItsId(i) == \A j \in Deliveries : j < i => log[j].lead_id # log[i].lead_id

NoId(i) == log[i].raw_id.k \in {"absent", "null"}

\* C3 as stated: a delivery without an identifier is never rejected as a
\* duplicate: it is always accepted.
C3_NoIdAlwaysAccepted ==
  \A i \in Deliveries : NoId(i) => log[i].gate = "accept"

\* C3 amended: a delivery without an identifier (the key absent or null) is
\* handled as a delivery of the identifier None: the first one is accepted
\* and None is recorded, every later one is rejected as a duplicate.
C3_NoIdAmended ==
  \A i \in Deliveries :
    NoId(i) =>
      IF \A j \in Deliveries : j < i => ~NoId(j)
        THEN log[i].gate = "accept" /\ Null \in processed_leads
        ELSE log[i].gate = "duplicate"

C3_Witness ==
  /\ Len(log) >= 2
  /\ log[1].raw_id.k = "absent" /\ log[1].gate = "accept"
  /\ log[2].raw_id.k = "null" /\ log[2].gate = "duplicate"

\* ---------------------------------------------------------------- C10
\* An accepted delivery whose processing failed: the mapping raised (400 or
\* 500) or the mail was not sent.
Failed(i) == log[i].gate = "accept" /\ (log[i].status # 200 \/ ~log[i].mailed)

\* C10: the identifier of an accepted delivery is recorded whether or not the
\* processing succeeds, and stays recorded; after a failed processing every
\* later delivery of the identifier is answered as a duplicate (200, nothing
\* written, nothing sent).
C10_FailedStaysRecorded ==
  \A i \in 1..Len(log) :
    log[i].gate = "accept" =>
      /\ log[i].lead_id \in processed_leads
      /\ Failed(i) =>
           \A j \in 1..Len(log) :
             (j > i /\ log[j].kind = "object" /\ log[j].lead_id = log[i].lead_id) =>
               /\ log[j].gate = "duplicate" /\ log[j].status = 200
               /\ ~log[j].wrote /\ ~log[j].mailed

C10_Witness ==
  /\ Len(log) = 3
  /\ log[1].lead_id = Str("123") /\ log[1].gate = "accept" /\ log[1].status = 500
  /\ log[2].lead_id = Str("456") /\ log[2].gate = "accept" /\ log[2].status = 200
  /\ ~log[2].mailed
  /\ log[3].lead_id = Str("123") /\ log[3].gate = "duplicate"
  /\ Len(outbox) = 0

====
